---- MODULE Spec2Model ----
(***************************************************************************)
(* Model of the stremio-ncore-addon server: the torrent store              *)
(* (TorrentStoreService of stream.controller.ts, the variant that keeps a  *)
(* persisted state file), the play handler's use of it, and the nCore      *)
(* source (NcoreService: login cookies, cached search, fallback search).   *)
(*                                                                         *)
(* Node runs every handler to its next await; a continuation that only     *)
(* waits for an already settled promise (a microtask) runs before any I/O  *)
(* callback or new request (a macrotask).  Actions are the synchronous     *)
(* stretches of the code between two suspension points.                    *)
(***************************************************************************)
EXTENDS Integers, Sequences, FiniteSets, TLC

\* ------------------------------------------------------------------------
\* Bounds
\* ------------------------------------------------------------------------
\* requests (play, admin delete, cleanup deletes) accepted after start-up
MaxReqs == 2

\* ------------------------------------------------------------------------
\* Torrent store: values
\* ------------------------------------------------------------------------
\* torrent-file paths under TORRENTS_DIR
Paths == {"p1", "p2"}
\* info hashes
Hashes == {"h1", "h2"}
\* the info hash stored in the torrent file at a path
HashOf(p) == IF p = "p1" THEN "h1" ELSE "h2"
\* the path downloadTorrentFile writes the torrent with info hash h to
PathOf(h) == IF h = "h1" THEN "p1" ELSE "p2"

NoTorrent == 0
NoPath == "none"

VARIABLES
  booted,            \* index.ts has called loadExistingTorrents()
  diskFiles,         \* torrent files that exist under TORRENTS_DIR
  diskDirs,          \* info hashes whose download directory exists
  stateFile,         \* torrent-state.json: info hash -> torrent-file path
  torrentFilePaths,  \* TorrentStoreService.torrentFilePaths
  torrents,          \* client.torrents: ids of the registered torrents
  tor,               \* every Torrent object created: path, infoHash, status
  reqs               \* the calls in flight or finished, one record each

storeVars == <<booted, diskFiles, diskDirs, stateFile, torrentFilePaths,
               torrents, tor, reqs>>

VARIABLES
  now,           \* Date.now(), in milliseconds
  cookiesCache,  \* NcoreService.cookiesCache: pass, cookieExpirationDate
  queryCache,    \* the store of @Cached: key -> value, insertedAt
  lastSearch,    \* per search: when its result was cached (within the
                 \* TTL), and whether the capacity bound evicted it since
  tracker,       \* what the tracker answers: page size, hits per search
  finds          \* the calls of getTorrentsForImdbId and of
                 \* getTorrentUrlBySourceId in progress

ncoreVars == <<now, cookiesCache, queryCache, lastSearch, tracker,
               finds>>

VARIABLES
  rangeCall,     \* a call of parseRangeHeader: arguments, position, result
  play           \* a play request from getTorrent on: inputs, position,
                 \* what it fetched and added, and its response

httpVars == <<rangeCall, play>>

vars == <<storeVars, ncoreVars, httpVars>>

\* ------------------------------------------------------------------------
\* Torrent store: helpers
\* ------------------------------------------------------------------------
MapSet(f, k, v) == [x \in DOMAIN f \cup {k} |-> IF x = k THEN v ELSE f[x]]
MapDel(f, k) == [x \in DOMAIN f \ {k} |-> f[x]]
MapGet(f, k) == IF k \in DOMAIN f THEN f[k] ELSE NoPath

SeqRemove(s, x) == SelectSeq(s, LAMBDA y: y # x)
InSeq(s, x) == \E i \in 1..Len(s): s[i] = x

\* readFileSync + JSON.parse of the state file
loadTorrentState == stateFile

\* client.get(infoHash): the registered torrent whose infoHash is known and
\* equal to h (the infoHash is unknown until the torrent file is parsed)
ClientGet(ts, tr, h) ==
  LET hits == {i \in 1..Len(ts): tr[ts[i]].infoHash = h}
  IN IF hits = {} THEN NoTorrent
     ELSE ts[CHOOSE i \in hits: \A j \in hits: i <= j]

getTorrent(h) == ClientGet(torrents, tor, h)

\* the lookup with the torrent's path in place of the persisted path: a
\* Torrent has no such field before the callback, nothing is ever found
ExistingTorrent_NeverFound(ts, tr, state, p) ==
  LET hits == {i \in 1..Len(ts):
                 /\ tr[ts[i]].infoHash \in DOMAIN state
                 /\ tr[ts[i]].infoHash = p}
  IN IF hits = {} THEN NoTorrent
     ELSE ts[CHOOSE i \in hits: \A j \in hits: i <= j]

\* client.torrents.find(t => state[t.infoHash] === torrentFilePath)
ExistingTorrent(ts, tr, state, p) ==
  LET hits == {i \in 1..Len(ts):
                 /\ tr[ts[i]].infoHash \in DOMAIN state
                 /\ state[tr[ts[i]].infoHash] = p}
  IN IF hits = {} THEN NoTorrent
     ELSE ts[CHOOSE i \in hits: \A j \in hits: i <= j]

\* a macrotask may run only when no continuation is queued as a microtask
NoMicrotask == \A r \in 1..Len(reqs): reqs[r].pc # "captured"

Accepted == Cardinality({r \in 1..Len(reqs): reqs[r].kind # "load"})

\* the adds on path p whose metadata-ready callback has not run yet
PendingAdds(rs, p) ==
  {r \in 1..Len(rs): rs[r].pc = "adding" /\ rs[r].path = p}

\* the resource of an add(p) that has resolved and has not been deleted
ResolvedResource(ts, tr, p) ==
  LET hits == {i \in 1..Len(ts):
                 tr[ts[i]].path = p /\ tr[ts[i]].status = "ready"}
  IN IF hits = {} THEN NoTorrent
     ELSE ts[CHOOSE i \in hits: \A j \in hits: i <= j]

Req(kind, h, p, pc, t) ==
  [kind |-> kind, hash |-> h, path |-> p, pc |-> pc, t |-> t,
   created |-> NoTorrent, dir |-> FALSE, conc |-> {}, idem |-> NoTorrent]

\* ------------------------------------------------------------------------
\* Torrent store: initial state
\* ------------------------------------------------------------------------
StoreInit ==
  /\ booted = FALSE
  /\ \E S \in SUBSET Paths:
       /\ stateFile = [h \in {HashOf(p): p \in S} |-> PathOf(h)]
       /\ \E D \in SUBSET S: diskFiles = D
  /\ diskDirs = {}
  /\ torrentFilePaths = [h \in {} |-> NoPath]
  /\ torrents = <<>>
  /\ tor = <<>>
  /\ reqs = <<>>

\* ------------------------------------------------------------------------
\* Torrent store: addTorrent
\* ------------------------------------------------------------------------
\* The synchronous body of addTorrent(p): reuse the registered torrent the
\* persisted state maps to p, or register a new Torrent with the engine
\* (client.add returns it before its torrent file has been read).
addTorrent(ts, tr, p) ==
  LET ex == ExistingTorrent(ts, tr, loadTorrentState, p)
  IN IF ex # NoTorrent
     THEN [torrents |-> ts, tor |-> tr, t |-> ex, created |-> NoTorrent]
     ELSE [torrents |-> Append(ts, Len(tr) + 1),
           tor |-> Append(tr, [path |-> p, infoHash |-> "",
                               status |-> "parsing"]),
           t |-> NoTorrent, created |-> Len(tr) + 1]

\* the request record of a call of addTorrent(p) after its synchronous body
AddCall(rq, rs, ts, tr, a) ==
  [rq EXCEPT !.pc = IF a.t # NoTorrent THEN "resolved" ELSE "adding",
             !.t = a.t,
             !.created = a.created,
             !.conc = PendingAdds(rs, rq.path),
             !.idem = ResolvedResource(ts, tr, rq.path)]

\* the promise of the add that created torrent t settles
Settle(rs, t, pc, res) ==
  [r \in 1..Len(rs) |->
     IF rs[r].created = t /\ rs[r].pc = "adding"
     THEN [rs[r] EXCEPT !.pc = pc, !.t = res] ELSE rs[r]]

\* the ontorrent callback of addTorrent: record the path, rewrite the state
OnTorrentMap(h, p) == MapSet(torrentFilePaths, h, p)
\* a state written without reading the file first
OnTorrentState_FromEmpty(h, p) == MapSet(<<>>, h, p)

OnTorrentState(h, p) == MapSet(loadTorrentState, h, p)

\* Object.values(state), in key order
HashSeq == <<"h1", "h2">>
StateValues ==
  LET ks == SelectSeq(HashSeq, LAMBDA h: h \in DOMAIN stateFile)
  IN [i \in 1..Len(ks) |-> stateFile[ks[i]]]

RECURSIVE LoadEach(_, _, _, _)
LoadEach(ps, ts, tr, rs) ==
  IF ps = <<>> THEN [torrents |-> ts, tor |-> tr, reqs |-> rs]
  ELSE LET p == Head(ps)
           a == addTorrent(ts, tr, p)
           rq == AddCall(Req("load", HashOf(p), p, "adding", NoTorrent),
                         rs, ts, tr, a)
       IN LoadEach(Tail(ps), a.torrents, a.tor, Append(rs, rq))

\* a Promise.all over the bare adds: the first rejection rejects it
loadExistingTorrentsResult_PromiseAll(rs) ==
  LET ls == {r \in 1..Len(rs): rs[r].kind = "load"}
  IN IF \E r \in ls: rs[r].pc = "rejected" THEN "rejected"
     ELSE IF \E r \in ls: rs[r].pc = "adding" THEN "pending"
     ELSE "fulfilled"

\* the promise of loadExistingTorrents: Promise.allSettled over the adds,
\* each with a catch that logs
loadExistingTorrentsResult(rs) ==
  LET ls == {r \in 1..Len(rs): rs[r].kind = "load"}
  IN IF \E r \in ls: rs[r].pc = "adding" THEN "pending" ELSE "fulfilled"

\* index.ts: torrentStoreService.loadExistingTorrents(), not awaited
loadExistingTorrents ==
  /\ UNCHANGED <<ncoreVars, httpVars>>
  /\ ~booted
  /\ booted' = TRUE
  /\ LET l == LoadEach(StateValues, torrents, tor, reqs)
     IN /\ torrents' = l.torrents
        /\ tor' = l.tor
        /\ reqs' = l.reqs
  /\ UNCHANGED <<diskFiles, diskDirs, stateFile, torrentFilePaths>>

\* ------------------------------------------------------------------------
\* Play handler (the part that obtains the resource)
\* ------------------------------------------------------------------------
\* play: torrent = await getTorrent(infoHash)
PlayStart(h) ==
  /\ UNCHANGED <<ncoreVars, httpVars>>
  /\ booted /\ NoMicrotask /\ Accepted < MaxReqs
  /\ LET t == getTorrent(h)
     IN reqs' = Append(reqs, Req("play", h, PathOf(h),
                                 IF t # NoTorrent THEN "got" ELSE "resolving",
                                 t))
  /\ UNCHANGED <<booted, diskFiles, diskDirs, stateFile, torrentFilePaths,
                 torrents, tor>>

\* play: the torrent file has been downloaded, addTorrent(path) is called
PlayDownloaded(r) ==
  /\ UNCHANGED <<ncoreVars, httpVars>>
  /\ NoMicrotask
  /\ reqs[r].kind = "play" /\ reqs[r].pc = "resolving"
  /\ diskFiles' = diskFiles \cup {reqs[r].path}
  /\ LET a == addTorrent(torrents, tor, reqs[r].path)
     IN /\ torrents' = a.torrents
        /\ tor' = a.tor
        /\ reqs' = [reqs EXCEPT ![r] = AddCall(reqs[r], reqs, torrents, tor, a)]
  /\ UNCHANGED <<booted, diskDirs, stateFile, torrentFilePaths>>

\* ------------------------------------------------------------------------
\* Transfer engine (WebTorrent client) events
\* ------------------------------------------------------------------------
Registered(t) == InSeq(torrents, t)

\* the torrent file cannot be read: the torrent is destroyed with an error
EngineParseError(t) ==
  /\ UNCHANGED <<ncoreVars, httpVars>>
  /\ NoMicrotask
  /\ Registered(t) /\ tor[t].status = "parsing"
  /\ tor[t].path \notin diskFiles
  /\ torrents' = SeqRemove(torrents, t)
  /\ tor' = [tor EXCEPT ![t].status = "destroyed"]
  /\ reqs' = Settle(reqs, t, "rejected", NoTorrent)
  /\ UNCHANGED <<booted, diskFiles, diskDirs, stateFile, torrentFilePaths>>

\* the torrent file is parsed and another registered torrent has the same
\* info hash: the new torrent is destroyed with "Cannot add duplicate
\* torrent"; newer engine versions then call ontorrent with the existing one
EngineDuplicate(t) ==
  /\ UNCHANGED <<ncoreVars, httpVars>>
  /\ NoMicrotask
  /\ Registered(t) /\ tor[t].status = "parsing"
  /\ tor[t].path \in diskFiles
  /\ getTorrent(HashOf(tor[t].path)) # NoTorrent
  /\ torrents' = SeqRemove(torrents, t)
  /\ tor' = [tor EXCEPT ![t].status = "destroyed"]
  /\ reqs' = Settle(reqs, t, "rejected", NoTorrent)
  /\ \E callback \in BOOLEAN:
       IF callback
       THEN /\ torrentFilePaths' = OnTorrentMap(HashOf(tor[t].path), tor[t].path)
            /\ stateFile' = OnTorrentState(HashOf(tor[t].path), tor[t].path)
       ELSE UNCHANGED <<torrentFilePaths, stateFile>>
  /\ UNCHANGED <<booted, diskFiles, diskDirs>>

\* the torrent file is parsed: the info hash is known, client.get finds it
EngineInfoHash(t) ==
  /\ UNCHANGED <<ncoreVars, httpVars>>
  /\ NoMicrotask
  /\ Registered(t) /\ tor[t].status = "parsing"
  /\ tor[t].path \in diskFiles
  /\ getTorrent(HashOf(tor[t].path)) = NoTorrent
  /\ tor' = [tor EXCEPT ![t].infoHash = HashOf(tor[t].path),
                        ![t].status = "infohash"]
  /\ UNCHANGED <<booted, diskFiles, diskDirs, stateFile, torrentFilePaths,
                 torrents, reqs>>

\* 'ready': the ontorrent callback of addTorrent runs and resolves the add
EngineReady(t) ==
  /\ UNCHANGED <<ncoreVars, httpVars>>
  /\ NoMicrotask
  /\ Registered(t) /\ tor[t].status = "infohash"
  /\ tor' = [tor EXCEPT ![t].status = "ready"]
  /\ torrentFilePaths' = OnTorrentMap(tor[t].infoHash, tor[t].path)
  /\ stateFile' = OnTorrentState(tor[t].infoHash, tor[t].path)
  /\ reqs' = Settle(reqs, t, "resolved", t)
  /\ UNCHANGED <<booted, diskFiles, diskDirs, torrents>>

\* the engine writes the first bytes of a streamed torrent: its download
\* directory appears under DOWNLOADS_DIR
EngineStore(t) ==
  /\ UNCHANGED <<ncoreVars, httpVars>>
  /\ NoMicrotask
  /\ Registered(t) /\ tor[t].status = "ready"
  /\ tor[t].infoHash \notin diskDirs
  /\ \E r \in 1..Len(reqs):
       /\ reqs[r].kind = "play" /\ reqs[r].t = t
       /\ reqs[r].pc \in {"got", "resolved"}
  /\ diskDirs' = diskDirs \cup {tor[t].infoHash}
  /\ UNCHANGED <<booted, diskFiles, stateFile, torrentFilePaths, torrents,
                 tor, reqs>>

\* ------------------------------------------------------------------------
\* Torrent store: deleteTorrent
\* ------------------------------------------------------------------------
\* a deleteTorrent that goes on without a recorded path or a torrent
DeleteCall_NoGuard(h) ==
  Req("delete", h, MapGet(torrentFilePaths, h), "captured", getTorrent(h))

\* deleteTorrent up to its first await: the path and the torrent are read;
\* the call returns after the await when either is missing
DeleteCall(h) ==
  LET p == MapGet(torrentFilePaths, h)
      t == getTorrent(h)
  IN Req("delete", h, p,
         IF t = NoTorrent \/ p = NoPath THEN "noop" ELSE "captured", t)

\* DELETE /torrents/:infoHash
DeleteStart(h) ==
  /\ UNCHANGED <<ncoreVars, httpVars>>
  /\ booted /\ NoMicrotask /\ Accepted < MaxReqs
  /\ reqs' = Append(reqs, DeleteCall(h))
  /\ UNCHANGED <<booted, diskFiles, diskDirs, stateFile, torrentFilePaths,
                 torrents, tor>>

\* the longest list getRemovableInfoHashes returns
MaxRemovable == 2

RemovableLists ==
  UNION {[1..n -> Hashes]: n \in 1..MaxRemovable}

\* deleteUnnecessaryTorrents: Promise.all(hashes.map(deleteTorrent))
deleteUnnecessaryTorrents(hs) ==
  /\ UNCHANGED <<ncoreVars, httpVars>>
  /\ booted /\ NoMicrotask /\ Accepted + Len(hs) <= MaxReqs
  /\ reqs' = reqs \o [i \in 1..Len(hs) |-> DeleteCall(hs[i])]
  /\ UNCHANGED <<booted, diskFiles, diskDirs, stateFile, torrentFilePaths,
                 torrents, tor>>

\* a removal that destroys the store as well
ClientRemove_DestroyStore(dirs, h) == dirs \ {h}

\* client.remove(infoHash, { destroyStore: false }): the download
\* directories after the removal
ClientRemove(dirs, h) == dirs

\* deleteTorrent after the await of getTorrent: the state is rewritten
\* without the hash, the download path is looked up, client.remove is called
\* (it throws when no torrent with that id is registered)
DeleteCont(r) ==
  /\ UNCHANGED <<ncoreVars, httpVars>>
  /\ reqs[r].kind = "delete" /\ reqs[r].pc = "captured"
  /\ \A q \in 1..(r - 1): reqs[q].pc # "captured"
  /\ stateFile' = MapDel(loadTorrentState, reqs[r].hash)
  /\ LET t == getTorrent(reqs[r].hash)
         dir == reqs[r].hash \in diskDirs
     IN IF t = NoTorrent
        THEN /\ reqs' = [reqs EXCEPT ![r].pc = "failed", ![r].dir = dir]
             /\ UNCHANGED <<torrents, tor>>
        ELSE /\ torrents' = SeqRemove(torrents, t)
             /\ tor' = [tor EXCEPT ![t].status = "destroyed"]
             /\ reqs' = [reqs EXCEPT ![r].pc = IF dir THEN "rm_dir"
                                                ELSE "rm_file",
                                     ![r].dir = dir]
  /\ diskDirs' = IF getTorrent(reqs[r].hash) = NoTorrent THEN diskDirs
                 ELSE ClientRemove(diskDirs, reqs[r].hash)
  /\ UNCHANGED <<booted, diskFiles, torrentFilePaths>>

\* await rm(torrentDownloadPath, { recursive: true })
DeleteRmDir(r) ==
  /\ UNCHANGED <<ncoreVars, httpVars>>
  /\ NoMicrotask
  /\ reqs[r].kind = "delete" /\ reqs[r].pc = "rm_dir"
  /\ IF reqs[r].hash \in diskDirs
     THEN /\ diskDirs' = diskDirs \ {reqs[r].hash}
          /\ reqs' = [reqs EXCEPT ![r].pc = "rm_file"]
     ELSE /\ reqs' = [reqs EXCEPT ![r].pc = "failed"]
          /\ UNCHANGED diskDirs
  /\ UNCHANGED <<booted, diskFiles, stateFile, torrentFilePaths, torrents,
                 tor>>

\* await rm(torrentFilePath)
DeleteRmFile(r) ==
  /\ UNCHANGED <<ncoreVars, httpVars>>
  /\ NoMicrotask
  /\ reqs[r].kind = "delete" /\ reqs[r].pc = "rm_file"
  /\ IF reqs[r].path \in diskFiles
     THEN /\ diskFiles' = diskFiles \ {reqs[r].path}
          /\ reqs' = [reqs EXCEPT ![r].pc = "done"]
     ELSE /\ reqs' = [reqs EXCEPT ![r].pc = "failed"]
          /\ UNCHANGED diskFiles
  /\ UNCHANGED <<booted, diskDirs, stateFile, torrentFilePaths, torrents,
                 tor>>

\* ------------------------------------------------------------------------
\* Specification of the torrent store
\* ------------------------------------------------------------------------
\* the nCore source before any request
NcoreIdle ==
  /\ now = 0
  /\ cookiesCache = [pass |-> 0, cookieExpirationDate |-> 0]
  /\ queryCache = <<>>
  /\ lastSearch = <<>>
  /\ tracker = <<>>
  /\ finds = <<>>

\* no call of parseRangeHeader and no play response under way
HttpIdle ==
  /\ rangeCall = <<>>
  /\ play = <<>>

Init == StoreInit /\ NcoreIdle /\ HttpIdle

Next ==
  \/ loadExistingTorrents
  \/ \E h \in Hashes: PlayStart(h)
  \/ \E r \in 1..Len(reqs): PlayDownloaded(r)
  \/ \E t \in 1..Len(tor): EngineParseError(t)
  \/ \E t \in 1..Len(tor): EngineDuplicate(t)
  \/ \E t \in 1..Len(tor): EngineInfoHash(t)
  \/ \E t \in 1..Len(tor): EngineReady(t)
  \/ \E t \in 1..Len(tor): EngineStore(t)
  \/ \E h \in Hashes: DeleteStart(h)
  \/ \E hs \in RemovableLists: deleteUnnecessaryTorrents(hs)
  \/ \E r \in 1..Len(reqs): DeleteCont(r)
  \/ \E r \in 1..Len(reqs): DeleteRmDir(r)
  \/ \E r \in 1..Len(reqs): DeleteRmFile(r)

Spec == Init /\ [][Next]_vars

\* ------------------------------------------------------------------------
\* nCore source: values
\* ------------------------------------------------------------------------
\* calls of getTorrentsForImdbId and getTorrentUrlBySourceId in progress at
\* the same time
MaxActive == 1
\* the clock stops here
MaxTime == 2000

\* getCookies: a cached cookie must outlive now by more than this
LoginMargin == 1000
\* one step of the clock
TickMs == LoginMargin

\* ttl and max of @Cached
DEFAULT_TTL == 1000
DEFAULT_MAX == 1

NoCookie == 0
\* the cookie strings the login endpoint hands out
Cookies == {1, 2}
NoExpiry == -1
Never == -1

\* the episode the requests ask for; a hit may hold it or another one
Episodes == {1}
\* the two searches of getTorrentsForImdbId
Stages == {"id", "name"}

\* a search hit with its parsed torrent: eps are the episodes for which the
\* selected file exists and is a supported media file
Cand(id, eps) == [id |-> id, eps |-> eps, isSpeculated |-> FALSE]

IdHitOptions == {<<>>, <<Cand("a", {1})>>, <<Cand("a", {2})>>}
NameHitOptions ==
  {<<>>, <<Cand("b", {1, 2}), Cand("c", {2}), Cand("d", {1})>>}
PerPageOptions == {1, 2}

\* the parameters of the two searches (one title, one stream type)
QueryParams(stage) ==
  IF stage = "id"
  THEN [mire |-> "tt0000001", miben |-> "imdb", miszerint |-> "seeders",
        kivalasztott_tipus |-> "series"]
  ELSE [mire |-> "Title", miben |-> "name", miszerint |-> "seeders",
        kivalasztott_tipus |-> "series"]

\* a key that leaves out what is searched for
GenerateKey_CategoryOnly(q) == <<q.miszerint, q.kivalasztott_tipus>>

\* generateKey: new URLSearchParams(queryParams).toString()
GenerateKey(q) == <<q.mire, q.miben, q.miszerint, q.kivalasztott_tipus>>

\* ------------------------------------------------------------------------
\* nCore source: getCookies
\* ------------------------------------------------------------------------
\* a check that treats a cookie expiring at exactly now + 1000 as usable
CookieValid_AtMargin(cc, t) ==
  cc.pass # NoCookie /\ cc.cookieExpirationDate >= t + LoginMargin

\* this.cookiesCache.pass && this.cookiesCache.cookieExpirationDate >
\* Date.now() + 1000
CookieValid(cc, t) ==
  cc.pass # NoCookie /\ cc.cookieExpirationDate > t + LoginMargin

\* getCookies up to its return or its await of the login request; the
\* record is the call of fetchTorrents or getTorrentUrlBySourceId that made
\* it: "login" waits for the login response, "page" has its cookie and
\* waits for the answer to its own request
getCookiesCall(cc, t) ==
  [pc |-> IF CookieValid(cc, t) THEN "page" ELSE "login",
   cookie |-> IF CookieValid(cc, t) THEN cc.pass ELSE NoCookie,
   viaLogin |-> ~CookieValid(cc, t),
   results |-> <<>>]

\* what the login endpoint may answer at time t: no usable pass cookie, or
\* one of the cookie strings, with or without an expiry
LoginResponses(t) ==
  {[ok |-> FALSE, cookie |-> NoCookie, expires |-> NoExpiry]} \cup
  {[ok |-> TRUE, cookie |-> c, expires |-> e]:
     c \in Cookies, e \in {NoExpiry, t + 2 * LoginMargin}}

\* the cache after a login response with a pass cookie
CacheLogin(cc, resp) ==
  [pass |-> resp.cookie,
   cookieExpirationDate |-> IF resp.expires # NoExpiry THEN resp.expires
                            ELSE cc.cookieExpirationDate]

\* ------------------------------------------------------------------------
\* nCore source: the store of @Cached
\* ------------------------------------------------------------------------
CacheHas(qc, k, t) == k \in DOMAIN qc /\ t - qc[k].insertedAt <= DEFAULT_TTL

CachePurge(qc, t) ==
  [k \in {x \in DOMAIN qc: t - qc[x].insertedAt <= DEFAULT_TTL} |-> qc[k]]

CacheSet(qc, k, v, t) ==
  LET qc1 == [x \in DOMAIN qc \cup {k} |->
                IF x = k THEN [value |-> v, insertedAt |-> t] ELSE qc[x]]
      others == DOMAIN qc1 \ {k}
      oldest == CHOOSE x \in others:
                  \A y \in others: qc1[x].insertedAt <= qc1[y].insertedAt
  IN IF Cardinality(DOMAIN qc1) > DEFAULT_MAX
     THEN [x \in DOMAIN qc1 \ {oldest} |-> qc1[x]]
     ELSE qc1

\* ------------------------------------------------------------------------
\* nCore source: the tracker's answers
\* ------------------------------------------------------------------------
Min(a, b) == IF a < b THEN a ELSE b

\* fetchTorrents: the JSON page, or the empty page for an HTML answer
TrackerPage(stage, n) ==
  LET hits == tracker.hits[stage]
      P == tracker.perpage
  IN IF hits = <<>>
     THEN [results |-> <<>>, total_results |-> 0, perpage |-> 0]
     ELSE [results |-> SubSeq(hits, (n - 1) * P + 1, Min(n * P, Len(hits))),
           total_results |-> Len(hits), perpage |-> P]

\* a page count that rounds down
LastPage_Floor(total, perpage) ==
  IF perpage = 0 THEN 0 ELSE total \div perpage

\* Math.ceil(total_results / perpage); 0 / 0 is NaN and the loop over the
\* remaining pages does not run
LastPage(total, perpage) ==
  IF perpage = 0 THEN 0 ELSE (total + perpage - 1) \div perpage

\* ------------------------------------------------------------------------
\* nCore source: getTorrentsForQuery and getTorrentsForImdbId
\* ------------------------------------------------------------------------
\* filterTorrentsBySeasonAndEpisode
Filter(ts, ep) == SelectSeq(ts, LAMBDA c: ep \in c.eps)

\* marking that misses the candidates
MarkSpeculated_Skip(ts) == ts

\* torrents.forEach((torrent) => { torrent.isSpeculated = true })
MarkSpeculated(ts) ==
  [i \in 1..Len(ts) |-> [ts[i] EXCEPT !.isSpeculated = TRUE]]

RECURSIVE FlatResults(_)
\* pages.flatMap((page) => page.results)
FlatResults(tasks) ==
  IF tasks = <<>> THEN <<>>
  ELSE Head(tasks).results \o FlatResults(Tail(tasks))

\* a call of getTorrentsForImdbId; "free" is a slot with no call in it
Find(ep, pc) ==
  [ep |-> ep, stage |-> "id", pc |-> pc, tasks |-> <<>>,
   result |-> <<>>, swallowed |-> FALSE, authFailed |-> FALSE,
   metaFailed |-> FALSE]

Free == Find(1, "free")

Final == {"done", "error"}

\* getTorrentsForImdbId from the point where a getTorrentsForQuery call has
\* returned torrents: w is the cache with the record of the last searches;
\* the cached array is the very object the caller marks
Complete(fr, ts, w) ==
  LET k == GenerateKey(QueryParams("name"))
  IN IF fr.stage = "id"
     THEN [find |-> IF Len(Filter(ts, fr.ep)) > 0
                    THEN [fr EXCEPT !.pc = "done",
                                    !.result = Filter(ts, fr.ep)]
                    ELSE [fr EXCEPT !.pc = "meta"],
           w |-> w]
     ELSE [find |-> [fr EXCEPT !.pc = "done",
                               !.result = Filter(MarkSpeculated(ts), fr.ep)],
           w |-> [w EXCEPT
                    !.qc = [x \in DOMAIN w.qc |->
                              IF x = k
                              THEN [w.qc[x] EXCEPT
                                      !.value = MarkSpeculated(w.qc[x].value)]
                              ELSE w.qc[x]]]]

\* a getTorrentsForQuery call through @Cached: the cached value, or the
\* first fetchTorrents call of a new search
getTorrentsForQuery(fr, stage, w, cc, t) ==
  LET k == GenerateKey(QueryParams(stage))
      f0 == [fr EXCEPT !.stage = stage, !.tasks = <<>>]
  IN IF CacheHas(w.qc, k, t)
     THEN Complete(f0, w.qc[k].value, w)
     ELSE [find |-> [f0 EXCEPT !.pc = "query",
                               !.tasks = <<getCookiesCall(cc, t)>>],
           w |-> w]

\* getTorrentsForQuery after processInBatches: the result is cached (an
\* entry pushed out by the capacity bound is noted) and returned
Assemble(fr, w, t) ==
  LET ts == FlatResults(fr.tasks)
      qc1 == CacheSet(w.qc, GenerateKey(QueryParams(fr.stage)), ts, t)
      ls1 == [s \in Stages |->
                IF s = fr.stage
                THEN [at |-> t, evicted |-> FALSE]
                ELSE IF /\ GenerateKey(QueryParams(s)) \in DOMAIN w.qc
                        /\ GenerateKey(QueryParams(s)) \notin DOMAIN qc1
                     THEN [w.ls[s] EXCEPT !.evicted = TRUE]
                     ELSE w.ls[s]]
  IN Complete(fr, ts, [qc |-> qc1, ls |-> ls1])

\* a catch that passes the error on
CatchFallback_Rethrow(fr) == [fr EXCEPT !.pc = "error"]

\* the catch around the fallback: console.error(...); return []
CatchFallback(fr) ==
  [fr EXCEPT !.pc = "done", !.result = <<>>, !.swallowed = TRUE]

\* a rejected getTorrentsForQuery or getCookies: the first search fails the
\* request and so does getTorrentUrlBySourceId, the catch around the fallback
\* returns []
Reject(fr) ==
  IF fr.pc # "query" THEN fr
  ELSE IF fr.stage # "name" THEN [fr EXCEPT !.pc = "error"]
  ELSE CatchFallback(fr)

World == [qc |-> queryCache, ls |-> lastSearch]

InFlight(fr) ==
  \E n \in 1..Len(fr.tasks): fr.tasks[n].pc \in {"login", "page"}

\* a fetchTorrents call that has returned or thrown keeps nothing
Spent(tk) ==
  IF tk.pc \in {"done", "failed"}
  THEN [tk EXCEPT !.cookie = NoCookie, !.viaLogin = FALSE] ELSE tk

\* the slot f after a step of its call
Returns(f, new) ==
  finds' = [finds EXCEPT
              ![f] = [new EXCEPT
                        !.tasks = [n \in 1..Len(new.tasks) |->
                                     Spent(new.tasks[n])]]]

\* the store before start-up, untouched by the nCore source
StoreIdle ==
  /\ booted = FALSE
  /\ diskFiles = {}
  /\ diskDirs = {}
  /\ stateFile = <<>>
  /\ torrentFilePaths = <<>>
  /\ torrents = <<>>
  /\ tor = <<>>
  /\ reqs = <<>>

NcoreInit ==
  /\ StoreIdle
  /\ HttpIdle
  /\ now = 0
  /\ cookiesCache = [pass |-> NoCookie, cookieExpirationDate |-> 0]
  /\ queryCache = <<>>
  /\ lastSearch = [s \in Stages |-> [at |-> Never, evicted |-> FALSE]]
  /\ \E P \in PerPageOptions, ih \in IdHitOptions, nh \in NameHitOptions:
       \* the page size plays no part below two hits
       /\ nh = <<>> => P = 1
       /\ tracker = [perpage |-> P, hits |-> [id |-> ih, name |-> nh]]
  /\ finds = [f \in 1..MaxActive |-> Free]

\* GET /stream/:type/:imdbId -> getTorrentsForImdbId
FindStart(f, ep) ==
  /\ finds[f].pc = "free"
  /\ \A g \in 1..(f - 1): finds[g].pc # "free"
  /\ LET r == getTorrentsForQuery(Find(ep, "query"), "id", World,
                                  cookiesCache, now)
     IN /\ Returns(f, r.find)
        /\ queryCache' = r.w.qc
        /\ lastSearch' = r.w.ls
  /\ UNCHANGED <<now, cookiesCache, tracker>>
  /\ UNCHANGED <<storeVars, httpVars>>

\* the answer to the login request of a getCookies call: without a usable
\* pass cookie getCookies throws, with one the cache is updated and the
\* caller sends its own request
LoginResponse(f, n, resp) ==
  /\ finds[f].tasks[n].pc = "login"
  /\ IF resp.ok
     THEN /\ cookiesCache' = CacheLogin(cookiesCache, resp)
          /\ finds' = [finds EXCEPT ![f].tasks[n].pc = "page",
                                    ![f].tasks[n].cookie = resp.cookie]
     ELSE /\ Returns(f, [Reject(finds[f]) EXCEPT
                        !.authFailed = (finds[f].pc = "query"),
                        !.tasks[n].pc = "failed"])
          /\ UNCHANGED cookiesCache
  /\ UNCHANGED <<now, queryCache, lastSearch, tracker>>
  /\ UNCHANGED <<storeVars, httpVars>>

\* the answer to a page request of fetchTorrents; the first page starts the
\* fetchTorrents calls of the remaining pages
PageResponse(f, n) ==
  /\ finds[f].stage \in Stages
  /\ finds[f].tasks[n].pc = "page"
  /\ LET resp == TrackerPage(finds[f].stage, n)
         lastPage == LastPage(resp.total_results, resp.perpage)
         fr == [finds[f] EXCEPT !.tasks[n].pc = "done",
                                !.tasks[n].results = resp.results]
         rest == [i \in 1..(IF lastPage > 1 THEN lastPage - 1 ELSE 0) |->
                    getCookiesCall(cookiesCache, now)]
         fr1 == IF n = 1 /\ fr.pc = "query"
                THEN [fr EXCEPT !.tasks = fr.tasks \o rest] ELSE fr
         alldone == \A i \in 1..Len(fr1.tasks): fr1.tasks[i].pc = "done"
     IN Returns(f, IF fr1.pc = "query" /\ alldone
                THEN [fr1 EXCEPT !.pc = "enrich"] ELSE fr1)
  /\ UNCHANGED <<now, cookiesCache, queryCache, lastSearch, tracker>>
  /\ UNCHANGED <<storeVars, httpVars>>

\* processInBatches has parsed the torrent of every hit
EnrichDone(f) ==
  /\ finds[f].pc = "enrich"
  /\ LET r == Assemble(finds[f], World, now)
     IN /\ Returns(f, r.find)
        /\ queryCache' = r.w.qc
        /\ lastSearch' = r.w.ls
  /\ UNCHANGED <<now, cookiesCache, tracker>>
  /\ UNCHANGED <<storeVars, httpVars>>

\* the answer of cinemetaService.getMetadataByImdbId
MetaResponse(f, ok) ==
  /\ finds[f].pc = "meta"
  /\ IF ok
     THEN LET r == getTorrentsForQuery(finds[f], "name", World,
                                       cookiesCache, now)
          IN /\ Returns(f, r.find)
             /\ queryCache' = r.w.qc
             /\ lastSearch' = r.w.ls
     ELSE /\ Returns(f, [CatchFallback(finds[f]) EXCEPT
                           !.metaFailed = TRUE])
          /\ UNCHANGED <<queryCache, lastSearch>>
  /\ UNCHANGED <<now, cookiesCache, tracker>>
  /\ UNCHANGED <<storeVars, httpVars>>

\* getStreamsForMedia answers (or the error reaches the framework); the
\* fetchTorrents calls the failed search left behind run on until then
FindReturn(f) ==
  /\ finds[f].pc \in Final
  /\ ~InFlight(finds[f])
  /\ finds' = [finds EXCEPT ![f] = Free]
  /\ UNCHANGED <<now, cookiesCache, queryCache, lastSearch, tracker>>
  /\ UNCHANGED <<storeVars, httpVars>>

\* GET /play -> getTorrentUrlBySourceId: getCookies, then the details page
\* is requested
UrlStart(f) ==
  /\ finds[f].pc = "free"
  /\ \A g \in 1..(f - 1): finds[g].pc # "free"
  /\ Returns(f, [Find(1, "query") EXCEPT
                   !.stage = "url",
                   !.tasks = <<getCookiesCall(cookiesCache, now)>>])
  /\ UNCHANGED <<now, cookiesCache, queryCache, lastSearch, tracker>>
  /\ UNCHANGED <<storeVars, httpVars>>

\* the details page arrives, getTorrentUrlBySourceId returns the link
UrlDetails(f) ==
  /\ finds[f].stage = "url"
  /\ finds[f].pc = "query"
  /\ finds[f].tasks[1].pc = "page"
  /\ finds' = [finds EXCEPT ![f] = Free]
  /\ UNCHANGED <<now, cookiesCache, queryCache, lastSearch, tracker>>
  /\ UNCHANGED <<storeVars, httpVars>>

\* time passes; ttlAutopurge drops the expired entries (and a search whose
\* TTL has elapsed is on record no longer)
NcoreTick ==
  /\ now + TickMs <= MaxTime
  /\ now' = now + TickMs
  /\ queryCache' = CachePurge(queryCache, now + TickMs)
  /\ lastSearch' = [s \in Stages |->
                      IF now + TickMs - lastSearch[s].at > DEFAULT_TTL
                      THEN [at |-> Never, evicted |-> FALSE]
                      ELSE lastSearch[s]]
  /\ UNCHANGED <<cookiesCache, tracker, finds>>
  /\ UNCHANGED <<storeVars, httpVars>>

NcoreNext ==
  \/ \E f \in 1..MaxActive: \E ep \in Episodes: FindStart(f, ep)
  \/ \E f \in 1..MaxActive: \E n \in 1..Len(finds[f].tasks):
       \E resp \in LoginResponses(now): LoginResponse(f, n, resp)
  \/ \E f \in 1..MaxActive: \E n \in 1..Len(finds[f].tasks):
       PageResponse(f, n)
  \/ \E f \in 1..MaxActive: EnrichDone(f)
  \/ \E f \in 1..MaxActive: \E ok \in BOOLEAN: MetaResponse(f, ok)
  \/ \E f \in 1..MaxActive: FindReturn(f)
  \/ \E f \in 1..MaxActive: UrlStart(f)
  \/ \E f \in 1..MaxActive: UrlDetails(f)
  \/ NcoreTick

NcoreSpec == NcoreInit /\ [][NcoreNext]_vars

\* ------------------------------------------------------------------------
\* Range header: values
\* ------------------------------------------------------------------------
\* the largest file length, apart from the 5000-byte file
MaxFileSize == 5
\* the largest number written in a header, apart from those for that file
MaxNum == 11
\* the largest maxChunkSize argument
MaxChunk == 3

\* the characters of a header: "bytes=" counts as one, "x" is any other
DigitChars == <<"0", "1", "2", "3", "4", "5", "6", "7", "8", "9">>

IsDigit(c) == \E d \in 1..10: DigitChars[d] = c

DigitVal(c) == (CHOOSE d \in 1..10: DigitChars[d] = c) - 1

RECURSIVE toString(_)
\* `${n}` of a non-negative integer
toString(n) ==
  IF n < 10 THEN <<DigitChars[n + 1]>>
  ELSE toString(n \div 10) \o <<DigitChars[(n % 10) + 1]>>

RECURSIVE parseInt(_)
\* parseInt(str, 10) of a non-empty string of digits
parseInt(str) ==
  IF Len(str) = 1 THEN DigitVal(str[1])
  ELSE 10 * parseInt(SubSeq(str, 1, Len(str) - 1)) + DigitVal(str[Len(str)])

\* stands for NaN, the value of start or end when its group did not match;
\* the code reads neither without testing the group first
NaN == -1

\* the numbers a header is written with
HeaderNums == (0..MaxNum) \cup {1000, 2000, 4999, 5000}

\* their texts: plain, and with a leading zero
NumStrs ==
  {toString(n): n \in HeaderNums} \cup
  {<<"0">> \o toString(n): n \in {0, 7}}

\* "bytes=<s>-<e>"
RangeText(s, e) == <<"bytes=">> \o s \o <<"-">> \o e

\* headers that are not of that form, or not only
OddTexts ==
  {<<>>, <<"x">>, <<"bytes=", "1">>, <<"x", "bytes=", "1", "-", "2", "x">>,
   <<"bytes=", "1", "x", "bytes=", "-", "2">>, <<"bytes=", "-", "-", "3">>,
   <<"bytes=", "1", "-", "2", "-", "3">>}

Texts == {RangeText(s, e): s, e \in NumStrs \cup {<<>>}} \cup OddTexts

\* c.req.header('range'): undefined or a string
Headers ==
  {[present |-> FALSE, text |-> <<>>]} \cup
  {[present |-> TRUE, text |-> t]: t \in Texts}

FileSizes == (0..MaxFileSize) \cup {5000}

\* the optional maxChunkSize argument
ChunkArgs ==
  {[given |-> FALSE, size |-> 0]} \cup
  {[given |-> TRUE, size |-> n]: n \in 0..MaxChunk}

\* ------------------------------------------------------------------------
\* Range header: parseRangeHeader
\* ------------------------------------------------------------------------
\* a clamp that forgets the upper limit
clamp_MinOnly(value, min, max) == IF value < min THEN min ELSE value

\* clamp
clamp(value, min, max) ==
  IF value < min THEN min ELSE IF value > max THEN max ELSE value

RECURSIVE DigitsEnd(_, _)
\* \d+ from position i: the position of the last digit of the run, i - 1
\* when there is no digit at i
DigitsEnd(h, i) ==
  IF i <= Len(h) /\ IsDigit(h[i]) THEN DigitsEnd(h, i + 1) ELSE i - 1

\* BYTES_RANGE_REGEX matches from position i
MatchAt(h, i) ==
  /\ h[i] = "bytes="
  /\ LET j == DigitsEnd(h, i + 1)
     IN j + 1 <= Len(h) /\ h[j + 1] = "-"

\* rangeHeader.match(BYTES_RANGE_REGEX): the groups of the first match; a
\* group that took no part is the empty string here
Match(h) ==
  LET at == {i \in 1..Len(h): MatchAt(h, i)}
  IN IF at = {}
     THEN [matched |-> FALSE, start |-> <<>>, end |-> <<>>]
     ELSE LET i == CHOOSE x \in at: \A y \in at: x <= y
              j == DigitsEnd(h, i + 1)
              k == DigitsEnd(h, j + 2)
          IN [matched |-> TRUE, start |-> SubSeq(h, i + 1, j),
              end |-> SubSeq(h, j + 2, k)]

Null == [ok |-> FALSE, start |-> 0, end |-> 0]

Range(start, end) == [ok |-> TRUE, start |-> start, end |-> end]

\* a check of the start only
RawOutside_StartOnly(startStr, start, endStr, end, fileSize) ==
  startStr # <<>> /\ start >= fileSize

\* if (startStr && start >= fileSize) return null;
\* if (endStr && end >= fileSize) return null;
RawOutside(startStr, start, endStr, end, fileSize) ==
  \/ startStr # <<>> /\ start >= fileSize
  \/ endStr # <<>> /\ end >= fileSize

\* Suffix byte format: "bytes=-500"
SuffixRange(end, fileSize, max) ==
  LET length == clamp(end, 0, max)
  IN IF length > 0 THEN Range(fileSize - length, fileSize - 1) ELSE Null

\* Prefix byte format: "bytes=1000-"
PrefixRange(start, fileSize, max) ==
  Range(clamp(start, 0, fileSize - 1),
        clamp(start + max - 1, 0, fileSize - 1))

\* an end taken as the first byte not to send
ExplicitRange_EndExclusive(start, end, fileSize) ==
  IF end < start THEN Null
  ELSE LET clampedStart == clamp(start, 0, fileSize - 1)
           clampedEnd == clamp(end - 1, clampedStart, fileSize - 1)
       IN IF clampedEnd - clampedStart + 1 > 0
          THEN Range(clampedStart, clampedEnd) ELSE Null

\* a version without the test of the order
ExplicitRange_Unordered(start, end, fileSize) ==
  LET clampedStart == clamp(start, 0, fileSize - 1)
      clampedEnd == clamp(end, clampedStart, fileSize - 1)
  IN IF clampedEnd - clampedStart + 1 > 0
     THEN Range(clampedStart, clampedEnd) ELSE Null

\* Fully specified format: "bytes=1000-2000"
ExplicitRange(start, end, fileSize) ==
  IF end < start THEN Null
  ELSE LET clampedStart == clamp(start, 0, fileSize - 1)
           clampedEnd == clamp(end, clampedStart, fileSize - 1)
       IN IF clampedEnd - clampedStart + 1 > 0
          THEN Range(clampedStart, clampedEnd) ELSE Null

parseRangeHeader(rangeHeader, fileSize, maxChunkSize) ==
  IF ~rangeHeader.present \/ rangeHeader.text = <<>> THEN Null
  ELSE
    LET match == Match(rangeHeader.text)
        startStr == match.start
        endStr == match.end
        start == IF startStr # <<>> THEN parseInt(startStr) ELSE NaN
        end == IF endStr # <<>> THEN parseInt(endStr) ELSE NaN
        max == IF maxChunkSize.given /\ maxChunkSize.size # 0
               THEN Min(maxChunkSize.size, fileSize) ELSE fileSize
    IN IF ~match.matched THEN Null
       ELSE IF startStr = <<>> /\ endStr = <<>> THEN Null
       ELSE IF RawOutside(startStr, start, endStr, end, fileSize) THEN Null
       ELSE IF startStr = <<>> THEN SuffixRange(end, fileSize, max)
       ELSE IF endStr = <<>> THEN PrefixRange(start, fileSize, max)
       ELSE ExplicitRange(start, end, fileSize)

\* a call of parseRangeHeader with any header, file size and maxChunkSize
RangeInit ==
  /\ StoreIdle
  /\ NcoreIdle
  /\ play = <<>>
  /\ \E h \in Headers, L \in FileSizes, m \in ChunkArgs:
       rangeCall = [header |-> h, fileSize |-> L, maxChunkSize |-> m,
                    pc |-> "called", result |-> Null]

\* the call returns
RangeReturn ==
  /\ rangeCall.pc = "called"
  /\ rangeCall' = [rangeCall EXCEPT
                     !.pc = "returned",
                     !.result = parseRangeHeader(rangeCall.header,
                                                 rangeCall.fileSize,
                                                 rangeCall.maxChunkSize)]
  /\ UNCHANGED <<storeVars, ncoreVars, play>>

RangeNext == RangeReturn

RangeSpec == RangeInit /\ [][RangeNext]_vars

\* ------------------------------------------------------------------------
\* Play: StreamController.play from getTorrent on
\* ------------------------------------------------------------------------
Methods == {"GET", "HEAD"}

\* c.req.param('sourceName'): the registered source, or another name
SourceNames == {"ncore", "other"}

\* Number(fileIdx)
FileIdxs == {-1, 0, 1}

\* torrent.files of the torrent asked for, by file length: one file
Files(L) == <<L>>

\* the href of '.download > a' on the details page, "undefined" when the
\* page has no such element
Hrefs == {"download.php", "undefined"}

\* `${env.NCORE_URL}/${href}`
DownloadLink(href) == <<"NCORE_URL", "/", href>>

\* no url: the manager knows no source of that name
NoUrl == <<>>

\* what TorrentSourceManager.getTorrentUrlBySourceId hands to play: the
\* link of the source named, nothing when no source has that name
TorrentUrl(sourceName, href) ==
  IF sourceName = "ncore" THEN DownloadLink(href) ELSE NoUrl

\* `bytes */${file.length}`
UnsatisfiedContentRange(L) == <<"bytes ", "*", "/">> \o toString(L)

\* `bytes ${start}-${end}/${file.length}`
ContentRange(start, end, L) ==
  <<"bytes ">> \o toString(start) \o <<"-">> \o toString(end) \o <<"/">>
    \o toString(L)

\* a length that leaves the last byte out
ContentLength_EndExclusive(start, end) == toString(end - start)

\* `${end - start + 1}`
ContentLength(start, end) == toString(end - start + 1)

NoText == <<>>

\* a thrown HTTPException, or an error that reaches the framework (500)
ErrorResponse(status) ==
  [status |-> status, contentRange |-> NoText, contentLength |-> NoText,
   body |-> "message", stream |-> Null]

\* a minimum initial window of two bytes: the smallest one that a range
\* can be narrower than
MinInitialWindow == 2

\* a handler that parses the Range header before it looks at the method
Respond_RangeFirst(method, header, fileIdx, files) ==
  IF fileIdx < 0 \/ fileIdx >= Len(files) THEN ErrorResponse(400)
  ELSE
    LET length == files[fileIdx + 1]
        range == parseRangeHeader(header, length,
                                  [given |-> FALSE, size |-> 0])
    IN IF ~range.ok
       THEN [status |-> 416,
             contentRange |-> UnsatisfiedContentRange(length),
             contentLength |-> NoText, body |-> "none", stream |-> Null]
       ELSE IF method = "HEAD"
       THEN [status |-> 200, contentRange |-> NoText,
             contentLength |-> toString(length), body |-> "none",
             stream |-> Null]
       ELSE [status |-> 206,
             contentRange |-> ContentRange(range.start, range.end, length),
             contentLength |-> ContentLength(range.start, range.end),
             body |-> "stream", stream |-> range]

\* play from the file index validation to the response
Respond(method, header, fileIdx, files) ==
  IF fileIdx < 0 \/ fileIdx >= Len(files) THEN ErrorResponse(400)
  ELSE
    LET length == files[fileIdx + 1]
        range == parseRangeHeader(header, length,
                                  [given |-> FALSE, size |-> 0])
    IN IF method = "HEAD"
       THEN [status |-> 200, contentRange |-> NoText,
             contentLength |-> toString(length), body |-> "none",
             stream |-> Null]
       ELSE IF ~range.ok
       THEN [status |-> 416,
             contentRange |-> UnsatisfiedContentRange(length),
             contentLength |-> NoText, body |-> "none", stream |-> Null]
       ELSE [status |-> 206,
             contentRange |-> ContentRange(range.start, range.end, length),
             contentLength |-> ContentLength(range.start, range.end),
             body |-> "stream", stream |-> range]

\* the request is answered
Answered(p, response) == [p EXCEPT !.pc = "done", !.response = response]

\* a play request with valid parameters, about to call getTorrent
PlayInit ==
  /\ StoreIdle
  /\ NcoreIdle
  /\ rangeCall = <<>>
  /\ \E m \in Methods, k \in BOOLEAN, sn \in SourceNames, i \in FileIdxs,
        h \in Headers, L \in FileSizes:
       play = [method |-> m, known |-> k, sourceName |-> sn, fileIdx |-> i,
               header |-> h, length |-> L, pc |-> "getTorrent",
               href |-> "", torrentUrl |-> NoUrl, downloadCalled |-> FALSE,
               added |-> FALSE, response |-> ErrorResponse(0)]

\* getTorrent answers: a known torrent is served, for an unknown one
\* getTorrentUrlBySourceId is called
PlayGetTorrent ==
  /\ play.pc = "getTorrent"
  /\ play' = IF play.known
             THEN Answered(play, Respond(play.method, play.header,
                                         play.fileIdx, Files(play.length)))
             ELSE [play EXCEPT !.pc = "url"]
  /\ UNCHANGED <<storeVars, ncoreVars, rangeCall>>

\* getCookies of getTorrentUrlBySourceId throws
PlayLoginFails ==
  /\ play.pc = "url"
  /\ play.sourceName = "ncore"
  /\ play' = Answered(play, ErrorResponse(500))
  /\ UNCHANGED <<storeVars, ncoreVars, rangeCall>>

\* getTorrentUrlBySourceId answers; without a url the request is answered
\* 404, with one downloadTorrentFile is called
PlayUrl(href) ==
  /\ play.pc = "url"
  /\ LET torrentUrl == TorrentUrl(play.sourceName, href)
         p == [play EXCEPT !.torrentUrl = torrentUrl,
                           !.href = IF play.sourceName = "ncore"
                                    THEN href ELSE ""]
     IN play' = IF torrentUrl = NoUrl
                THEN Answered(p, ErrorResponse(404))
                ELSE [p EXCEPT !.pc = "download", !.downloadCalled = TRUE]
  /\ UNCHANGED <<storeVars, ncoreVars, rangeCall>>

\* downloadTorrentFile answers: a path, with which addTorrent is called, or
\* an error
PlayDownload(ok) ==
  /\ play.pc = "download"
  /\ play' = IF ok THEN [play EXCEPT !.pc = "add"]
             ELSE Answered(play, ErrorResponse(500))
  /\ UNCHANGED <<storeVars, ncoreVars, rangeCall>>

\* addTorrent answers: the torrent, which is served, or an error
PlayAdd(ok) ==
  /\ play.pc = "add"
  /\ play' = IF ok
             THEN Answered([play EXCEPT !.added = TRUE],
                           Respond(play.method, play.header, play.fileIdx,
                                   Files(play.length)))
             ELSE Answered(play, ErrorResponse(500))
  /\ UNCHANGED <<storeVars, ncoreVars, rangeCall>>

PlayNext ==
  \/ PlayGetTorrent
  \/ PlayLoginFails
  \/ \E href \in Hrefs: PlayUrl(href)
  \/ \E ok \in BOOLEAN: PlayDownload(ok)
  \/ \E ok \in BOOLEAN: PlayAdd(ok)

PlaySpec == PlayInit /\ [][PlayNext]_vars

\* ------------------------------------------------------------------------
\* Torrent store: properties
\* ------------------------------------------------------------------------
Settled(r) == reqs[r].pc \in {"resolved", "rejected"}

\* the info hashes of the resources loaded in the transfer engine
EngineHashes ==
  {tor[torrents[i]].infoHash: i \in 1..Len(torrents)} \ {""}

\* no addTorrent and no deleteTorrent is in progress
Quiescent ==
  \A r \in 1..Len(reqs):
    reqs[r].pc \notin {"adding", "captured", "rm_dir", "rm_file"}

\* C1: two add(p) calls in flight at the same time (the second starts before
\* the first's metadata-ready callback has run) both resolve to the same
\* resource, and only one of them registers a resource with the engine.
C1_ConcurrentAddsShareOneResource ==
  \A a, b \in 1..Len(reqs):
    (a \in reqs[b].conc /\ Settled(a) /\ Settled(b)) =>
      /\ reqs[a].pc = "resolved" /\ reqs[b].pc = "resolved"
      /\ reqs[a].t = reqs[b].t
      /\ ~(reqs[a].created # NoTorrent /\ reqs[b].created # NoTorrent)

\* C2: in the step in which delete(h) completes, get(h) returns absent and
\* the persisted state has no entry for h.
C2_DeleteThenGetAbsent ==
  [][\A r \in 1..Len(reqs):
       (reqs[r].kind = "delete" /\ reqs[r].pc # "done"
          /\ reqs'[r].pc = "done") =>
         /\ ClientGet(torrents', tor', reqs[r].hash) = NoTorrent
         /\ reqs[r].hash \notin DOMAIN stateFile']_vars

\* C3: whenever no add or delete is in progress, the persisted state, the
\* engine's loaded resources and the in-memory path map hold the same info
\* hashes.
C3_StateEngineMapAgree ==
  (booted /\ Quiescent) =>
    /\ DOMAIN stateFile = EngineHashes
    /\ DOMAIN torrentFilePaths = EngineHashes

\* C4: the resource get(infoHash) hands to the play handler has had its
\* metadata-ready confirmation from the engine.
C4_GetOnlyReady ==
  \A r \in 1..Len(reqs):
    (reqs[r].kind = "play" /\ reqs[r].pc = "got") =>
      tor[reqs[r].t].status \notin {"parsing", "infohash"}

\* C5: in the step in which a delete completes, the persisted state has no
\* entry for the torrent-file path that delete removed from disk.
C5_NoRemovedPathInState ==
  [][\A r \in 1..Len(reqs):
       (reqs[r].kind = "delete" /\ reqs[r].pc # "done"
          /\ reqs'[r].pc = "done") =>
         \A h \in DOMAIN stateFile':
           stateFile'[h] = reqs[r].path => stateFile'[h] \in diskFiles']_vars

C7_CachedCookieExactlyWhenFresh ==
  [][LET fresh == /\ cookiesCache.pass # NoCookie
                  /\ cookiesCache.cookieExpirationDate > now + 1000
     IN \A f \in 1..MaxActive:
          LET started == \/ finds[f].pc = "free"
                         \/ finds[f].pc = "meta" /\ finds'[f].stage = "name"
              first == IF started THEN 1 ELSE Len(finds[f].tasks) + 1
          IN /\ \A n \in first..Len(finds'[f].tasks):
                  IF fresh
                  THEN /\ finds'[f].tasks[n].pc = "page"
                       /\ finds'[f].tasks[n].cookie = cookiesCache.pass
                       /\ cookiesCache' = cookiesCache
                  ELSE /\ finds'[f].tasks[n].pc = "login"
                       /\ finds'[f].tasks[n].cookie = NoCookie
             /\ \A n \in 1..Len(finds[f].tasks):
                  (/\ finds[f].tasks[n].pc = "login"
                   /\ n <= Len(finds'[f].tasks)
                   /\ finds'[f].tasks[n].cookie # NoCookie) =>
                    /\ finds'[f].tasks[n].pc = "page"
                    /\ finds'[f].tasks[n].cookie = cookiesCache'.pass]_vars

\* a call holds the cached cookie, without a login of its own
C7_Witness ==
  \E f \in 1..MaxActive: \E n \in 1..Len(finds[f].tasks):
    /\ finds[f].tasks[n].pc = "page"
    /\ ~finds[f].tasks[n].viaLogin
    /\ finds[f].tasks[n].cookie = cookiesCache.pass
    /\ cookiesCache.cookieExpirationDate > now + 1000

\* C8 (as claimed): a search whose parameters were searched before and whose
\* result was cached no more than the TTL ago makes no network call and
\* returns the same candidates; a search after the TTL has elapsed (or the
\* first one) goes to the network.
C8_RepeatWithinTtlUsesCache ==
  [][\A f \in 1..MaxActive: \A s \in Stages:
       LET issued == IF s = "id"
                     THEN /\ finds[f].pc = "free" /\ finds'[f].pc # "free"
                          /\ finds'[f].stage = "id"
                     ELSE finds[f].pc = "meta" /\ finds'[f].stage = "name"
           hits == tracker.hits[s]
           ep == finds'[f].ep
           kept == SelectSeq(hits, LAMBDA c: ep \in c.eps)
           within == /\ lastSearch[s].at # Never
                     /\ now - lastSearch[s].at <= DEFAULT_TTL
       IN issued =>
            IF within
            THEN /\ finds'[f].tasks = <<>>
                 /\ IF s = "id"
                    THEN IF kept # <<>>
                         THEN /\ finds'[f].pc = "done"
                              /\ finds'[f].result = kept
                         ELSE finds'[f].pc = "meta"
                    ELSE /\ finds'[f].pc = "done"
                         /\ ~finds'[f].swallowed
                         /\ Len(finds'[f].result) = Len(kept)
                         /\ \A i \in 1..Len(kept):
                              /\ finds'[f].result[i].id = kept[i].id
                              /\ finds'[f].result[i].eps = kept[i].eps
            ELSE /\ finds'[f].pc = "query"
                 /\ finds'[f].stage = s
                 /\ Len(finds'[f].tasks) = 1]_vars

\* C8 (amended): the same, for a cached result that the capacity bound has
\* not evicted since; a search after the TTL has elapsed (or the first one)
\* goes to the network.
C8_RepeatWithinTtlUnlessEvicted ==
  [][\A f \in 1..MaxActive: \A s \in Stages:
       LET issued == IF s = "id"
                     THEN /\ finds[f].pc = "free" /\ finds'[f].pc # "free"
                          /\ finds'[f].stage = "id"
                     ELSE finds[f].pc = "meta" /\ finds'[f].stage = "name"
           hits == tracker.hits[s]
           ep == finds'[f].ep
           kept == SelectSeq(hits, LAMBDA c: ep \in c.eps)
           within == /\ lastSearch[s].at # Never
                     /\ now - lastSearch[s].at <= DEFAULT_TTL
       IN issued =>
            /\ (within /\ ~lastSearch[s].evicted) =>
                 /\ finds'[f].tasks = <<>>
                 /\ IF s = "id"
                    THEN IF kept # <<>>
                         THEN /\ finds'[f].pc = "done"
                              /\ finds'[f].result = kept
                         ELSE finds'[f].pc = "meta"
                    ELSE /\ finds'[f].pc = "done"
                         /\ ~finds'[f].swallowed
                         /\ Len(finds'[f].result) = Len(kept)
                         /\ \A i \in 1..Len(kept):
                              /\ finds'[f].result[i].id = kept[i].id
                              /\ finds'[f].result[i].eps = kept[i].eps
            /\ ~within =>
                 /\ finds'[f].pc = "query"
                 /\ finds'[f].stage = s
                 /\ Len(finds'[f].tasks) = 1]_vars

\* a by-id search answered from the cache at the very end of the TTL
C8_Witness ==
  \E f \in 1..MaxActive:
    /\ finds[f].stage = "id" /\ finds[f].pc = "done"
    /\ finds[f].tasks = <<>> /\ finds[f].result # <<>>
    /\ lastSearch["id"].at # Never /\ ~lastSearch["id"].evicted
    /\ now - lastSearch["id"].at = DEFAULT_TTL

\* C9: when the by-id search leaves nothing after the filter and the search
\* by name has returned hits, getTorrentsForImdbId returns exactly the hits
\* of the search by name that pass the season/episode filter, in order, each
\* with isSpeculated = true.
C9_FallbackExactlyFilteredSpeculative ==
  \A f \in 1..MaxActive:
    (/\ finds[f].pc = "done" /\ finds[f].stage = "name"
     /\ ~finds[f].swallowed) =>
      LET kept == SelectSeq(tracker.hits["name"],
                            LAMBDA c: finds[f].ep \in c.eps)
      IN finds[f].result =
           [i \in 1..Len(kept) |->
              [id |-> kept[i].id, eps |-> kept[i].eps,
               isSpeculated |-> TRUE]]

\* the fallback returned some of the hits of the search by name, not all
C9_Witness ==
  \E f \in 1..MaxActive:
    /\ finds[f].pc = "done" /\ finds[f].stage = "name"
    /\ ~finds[f].swallowed
    /\ finds[f].result # <<>>
    /\ Len(finds[f].result) < Len(tracker.hits["name"])

\* C10: a getTorrentsForImdbId call during one of whose searches a login
\* gave no usable pass cookie ends with an error, never with a list.
C10_LoginFailureFailsFind ==
  \A f \in 1..MaxActive:
    (finds[f].authFailed /\ finds[f].pc \in Final) => finds[f].pc = "error"

\* C11: a getTorrentsForImdbId call whose metadata lookup (the first step of
\* the fallback) failed returns the empty list and raises no error.
C11_MetadataFailureYieldsEmpty ==
  \A f \in 1..MaxActive:
    (finds[f].metaFailed /\ finds[f].pc # "free") =>
      /\ finds[f].pc = "done"
      /\ finds[f].result = <<>>

\* the metadata lookup of a call has failed after a by-id search that had a
\* hit, though of another episode
C11_Witness ==
  \E f \in 1..MaxActive:
    /\ finds[f].metaFailed /\ finds[f].pc = "done"
    /\ tracker.hits["id"] # <<>>

\* ------------------------------------------------------------------------
\* Range header: properties
\* ------------------------------------------------------------------------
\* C12: for every file length > 0 and every A, B with 0 <= A <= B < file
\* length, parseRangeHeader of "bytes=A-B" returns exactly {start: A, end: B}
\* (with or without a maxChunkSize).
C12_ValidExplicitRangeUnchanged ==
  \A A, B \in HeaderNums:
    (/\ rangeCall.pc = "returned"
     /\ rangeCall.header.present
     /\ rangeCall.header.text = RangeText(toString(A), toString(B))
     /\ A <= B /\ B < rangeCall.fileSize) =>
      /\ rangeCall.result.ok
      /\ rangeCall.result.start = A
      /\ rangeCall.result.end = B

\* "bytes=1000-2000" of a 5000-byte file
C12_Witness ==
  /\ rangeCall.pc = "returned"
  /\ rangeCall.header.text = <<"bytes=", "1", "0", "0", "0", "-",
                               "2", "0", "0", "0">>
  /\ rangeCall.fileSize = 5000
  /\ rangeCall.result = [ok |-> TRUE, start |-> 1000, end |-> 2000]

\* C13: for every file length > 0 and every N > file length, "bytes=-N"
\* (no maxChunkSize) gives what "bytes=-<file length>" gives, and that is
\* the whole file, {start: 0, end: file length - 1}.
C13_SuffixBeyondFileIsWholeFile ==
  \A N \in HeaderNums:
    (/\ rangeCall.pc = "returned"
     /\ rangeCall.header.present
     /\ ~rangeCall.maxChunkSize.given
     /\ rangeCall.header.text = RangeText(<<>>, toString(N))
     /\ rangeCall.fileSize > 0 /\ N > rangeCall.fileSize) =>
      /\ rangeCall.result =
           parseRangeHeader([present |-> TRUE,
                             text |-> RangeText(<<>>,
                                                toString(rangeCall.fileSize))],
                            rangeCall.fileSize, rangeCall.maxChunkSize)
      /\ rangeCall.result.ok
      /\ rangeCall.result.start = 0
      /\ rangeCall.result.end = rangeCall.fileSize - 1

\* C14: a header "bytes=<s>-<e>" (suffix, prefix or explicit form) whose
\* written start or written end is >= the file length is answered null,
\* whatever clamping would have made of it.
C14_RawOutsideRejected ==
  \A s, e \in HeaderNums \cup {-1}:
    LET str(n) == IF n = -1 THEN <<>> ELSE toString(n)
    IN (/\ rangeCall.pc = "returned"
        /\ rangeCall.header.present
        /\ rangeCall.header.text = RangeText(str(s), str(e))
        /\ s >= rangeCall.fileSize \/ e >= rangeCall.fileSize) =>
         ~rangeCall.result.ok

\* a suffix length that a clamp would have cut to the file length
C14_Witness ==
  /\ rangeCall.pc = "returned"
  /\ rangeCall.header.text = <<"bytes=", "-", "1", "1">>
  /\ rangeCall.fileSize = 5
  /\ ~rangeCall.result.ok

\* C15: for every file length, "bytes=A-B" with A > B is answered null.
C15_StartAfterEndRejected ==
  \A A, B \in HeaderNums:
    (/\ rangeCall.pc = "returned"
     /\ rangeCall.header.present
     /\ rangeCall.header.text = RangeText(toString(A), toString(B))
     /\ A > B) =>
      ~rangeCall.result.ok

\* start and end both inside the file, in the wrong order
C15_Witness ==
  /\ rangeCall.pc = "returned"
  /\ rangeCall.header.text = <<"bytes=", "3", "-", "1">>
  /\ rangeCall.fileSize = 5
  /\ ~rangeCall.result.ok

\* C16: every non-null result of parseRangeHeader, for any header, any file
\* length >= 0 and any maxChunkSize (none, or a size >= 0), has
\* 0 <= start <= end <= file length - 1.
C16_ResultInsideFile ==
  (rangeCall.pc = "returned" /\ rangeCall.result.ok) =>
    /\ 0 <= rangeCall.result.start
    /\ rangeCall.result.start <= rangeCall.result.end
    /\ rangeCall.result.end <= rangeCall.fileSize - 1

\* a prefix range cut short by the maxChunkSize
C16_Witness ==
  /\ rangeCall.pc = "returned"
  /\ rangeCall.result.ok
  /\ rangeCall.maxChunkSize.given
  /\ rangeCall.header.text = <<"bytes=", "1", "-">>
  /\ rangeCall.result.start = 1
  /\ rangeCall.result.end < rangeCall.fileSize - 1

\* ------------------------------------------------------------------------
\* Play: properties
\* ------------------------------------------------------------------------
\* the request was answered from a torrent and a file of it
Served ==
  /\ play.pc = "done"
  /\ play.known \/ play.added
  /\ play.fileIdx = 0

\* what the parser makes of the request's Range header
Negotiated ==
  parseRangeHeader(play.header, play.length, [given |-> FALSE, size |-> 0])

\* C17: when the negotiated range of a GET starts at byte 0 and is narrower
\* than the minimum initial window, the range of the play response (header
\* and stream) covers exactly the minimum initial window, or runs to the
\* last byte of a file smaller than the window.
C17_ColdStartWidened ==
  (/\ Served /\ play.method = "GET"
   /\ Negotiated.ok /\ Negotiated.start = 0
   /\ Negotiated.end - Negotiated.start + 1 < MinInitialWindow) =>
    LET end == Min(MinInitialWindow - 1, play.length - 1)
    IN /\ play.response.status = 206
       /\ play.response.stream = Range(0, end)
       /\ play.response.contentRange = ContentRange(0, end, play.length)

\* C18: for every Range header the parser accepts with {start, end} on a
\* file of length L, the response of a GET has status 206, Content-Range
\* "bytes start-end/L", Content-Length end - start + 1, and the stream is
\* asked for exactly [start, end]; bytes=1000-2000 on 5000 bytes gives
\* Content-Range "bytes 1000-2000/5000" and Content-Length 1001.
C18_PartialContentMatchesRange ==
  (Served /\ play.method = "GET" /\ Negotiated.ok) =>
    /\ play.response.status = 206
    /\ play.response.body = "stream"
    /\ play.response.stream = Negotiated
    /\ play.response.contentRange =
         <<"bytes ">> \o toString(Negotiated.start) \o <<"-">>
           \o toString(Negotiated.end) \o <<"/">> \o toString(play.length)
    /\ play.response.contentLength =
         toString(Negotiated.end - Negotiated.start + 1)
    /\ (/\ play.header.text = <<"bytes=", "1", "0", "0", "0", "-",
                                "2", "0", "0", "0">>
        /\ play.length = 5000) =>
         /\ play.response.contentRange =
              <<"bytes ", "1", "0", "0", "0", "-", "2", "0", "0", "0",
                "/", "5", "0", "0", "0">>
         /\ play.response.contentLength = <<"1", "0", "0", "1">>

\* the spec's example, asked of a torrent that was not in the store
C18_Witness ==
  /\ Served /\ play.method = "GET" /\ play.added
  /\ play.header.text = <<"bytes=", "1", "0", "0", "0", "-",
                          "2", "0", "0", "0">>
  /\ play.length = 5000
  /\ play.response.status = 206
  /\ play.response.contentLength = <<"1", "0", "0", "1">>

\* C19: a HEAD request for a known torrent and a valid file index is
\* answered 200 with Content-Length the file length and no body, whether
\* the Range header is absent, valid or unsatisfiable.
C19_HeadIgnoresRange ==
  (Served /\ play.method = "HEAD" /\ play.known) =>
    /\ play.response.status = 200
    /\ play.response.contentLength = toString(play.length)
    /\ play.response.body = "none"
    /\ play.response.contentRange = NoText

\* a HEAD request with a Range header that a GET would be refused for
C19_Witness ==
  /\ Served /\ play.method = "HEAD" /\ play.known
  /\ play.header.present
  /\ play.header.text = <<"bytes=", "3", "-", "1">>
  /\ play.length = 5
  /\ ~Negotiated.ok
  /\ play.response.status = 200

\* C20: a play request for an info hash that is not in the store and whose
\* source id resolves to no download link (no source of that name, or a
\* details page without the link element) is answered 404, no torrent file
\* is downloaded and nothing is added to the store.
C20_UnresolvedSourceIdIs404 ==
  (/\ play.pc = "done"
   /\ ~play.known
   /\ play.sourceName # "ncore" \/ play.href = "undefined") =>
    /\ play.response.status = 404
    /\ ~play.downloadCalled
    /\ ~play.added

\* ------------------------------------------------------------------------
\* Torrent store: properties of loading and deleting
\* ------------------------------------------------------------------------
\* C21: loadExistingTorrents starts an add for every path of the persisted
\* state; the step in which the add of one entry fails leaves the adds of
\* the other entries and their torrents as they are; and once every add has
\* settled the promise of loadExistingTorrents is fulfilled, not rejected.
C21_LoadAllPartialSuccess ==
  [][/\ (~booted /\ booted') =>
          \A h \in DOMAIN stateFile:
            \E r \in (Len(reqs) + 1)..Len(reqs'):
              reqs'[r].kind = "load" /\ reqs'[r].path = stateFile[h]
     /\ \A a \in 1..Len(reqs):
          (/\ reqs[a].kind = "load" /\ reqs[a].pc = "adding"
           /\ reqs'[a].pc = "rejected") =>
            \A b \in 1..Len(reqs):
              (b # a /\ reqs[b].kind = "load") =>
                /\ reqs'[b] = reqs[b]
                /\ (reqs[b].created # NoTorrent
                      /\ InSeq(torrents, reqs[b].created)) =>
                     InSeq(torrents', reqs[b].created)
     /\ (/\ booted'
         /\ \A r \in 1..Len(reqs'):
              reqs'[r].kind = "load" => reqs'[r].pc # "adding") =>
          loadExistingTorrentsResult(reqs') = "fulfilled"]_vars

\* two entries were loaded: the add of one failed, the other resolved
C21_Witness ==
  \E a, b \in 1..Len(reqs):
    /\ reqs[a].kind = "load" /\ reqs[a].pc = "rejected"
    /\ reqs[b].kind = "load" /\ reqs[b].pc = "resolved"
    /\ loadExistingTorrentsResult(reqs) = "fulfilled"

\* the order of the positions of one deleteTorrent call
DeleteOrder ==
  {<<"captured", "rm_dir">>, <<"captured", "rm_file">>,
   <<"rm_dir", "rm_file">>, <<"rm_file", "done">>,
   <<"captured", "failed">>, <<"rm_dir", "failed">>,
   <<"rm_file", "failed">>}

C23_BadRequestTouchesNothing ==
  (play.pc = "done" /\ play.response.status = 400) =>
    /\ ~play.downloadCalled
    /\ ~play.added

\* ------------------------------------------------------------------------
\* Torrent store: properties of deleting
\* ------------------------------------------------------------------------
\* C24: a deleteTorrent for a hash that has no registered torrent, or whose
\* torrent-file path is not recorded, returns without an error and changes
\* nothing: not the persisted state, the engine's torrents, the path map or
\* the files and directories on disk.
C24_DeleteUnknownIsNoop ==
  [][\A r \in 1..Len(reqs'):
       (/\ reqs'[r].kind = "delete"
        /\ reqs'[r].t = NoTorrent \/ reqs'[r].path = NoPath) =>
         /\ reqs'[r].pc = "noop"
         /\ r > Len(reqs) =>
              /\ stateFile' = stateFile
              /\ torrents' = torrents /\ tor' = tor
              /\ torrentFilePaths' = torrentFilePaths
              /\ diskFiles' = diskFiles /\ diskDirs' = diskDirs]_vars

\* a delete of a registered torrent whose path is not recorded yet, when
\* the persisted state has the hash
C24_Witness ==
  \E r \in 1..Len(reqs):
    /\ reqs[r].kind = "delete" /\ reqs[r].pc = "noop"
    /\ reqs[r].t # NoTorrent /\ reqs[r].path = NoPath
    /\ reqs[r].hash \in DOMAIN stateFile

\* ------------------------------------------------------------------------
\* nCore source: properties of the page requests and of the cookie cache
\* ------------------------------------------------------------------------
\* the page requests a search has sent so far: one per fetchTorrents call
\* that got its cookie
PagesRequested(fr) ==
  Cardinality({n \in 1..Len(fr.tasks): fr.tasks[n].pc \in {"page", "done"}})

\* the number of pages of T > 0 results, P > 0 to a page
PagesOf(T, P) == CHOOSE n \in 1..T: (n - 1) * P < T /\ T <= n * P

\* C25: an uncached search whose first page reports T > 0 results and page
\* size P > 0 sends ceil(T / P) page requests in all, page 1 first and each
\* of the pages 2..ceil(T / P) once, so that the pages together hold every
\* result once; a first page without results is the only request.
C25_PageRequestsAreCeil ==
  \A f \in 1..MaxActive:
    (finds[f].stage \in Stages /\ finds[f].tasks # <<>>) =>
      LET hits == tracker.hits[finds[f].stage]
          pages == IF hits = <<>> THEN 1
                   ELSE PagesOf(Len(hits), tracker.perpage)
      IN /\ PagesRequested(finds[f]) <= pages
         /\ finds[f].tasks[1].pc # "done" => Len(finds[f].tasks) = 1
         /\ finds[f].tasks[1].pc = "done" => Len(finds[f].tasks) = pages
         /\ finds[f].pc = "enrich" =>
              /\ PagesRequested(finds[f]) = pages
              /\ FlatResults(finds[f].tasks) = hits

\* three results, two to a page: two page requests
C25_Witness ==
  \E f \in 1..MaxActive:
    /\ finds[f].stage = "name" /\ finds[f].pc = "enrich"
    /\ Len(tracker.hits["name"]) = 3 /\ tracker.perpage = 2
    /\ PagesRequested(finds[f]) = 2

\* C27: the cached cookie string and the cached expiry come from the same
\* login response: in the step in which a login response is cached, the
\* cached expiry is the expiry of that response, or there is none cached
\* (the initial 0); it is not the expiry an earlier login left behind.
C27_CookieAndExpiryFromOneLogin ==
  [][\A f \in 1..MaxActive: \A n \in 1..Len(finds[f].tasks):
       (/\ finds[f].tasks[n].pc = "login"
        /\ n <= Len(finds'[f].tasks)
        /\ finds'[f].tasks[n].pc = "page") =>
         /\ cookiesCache'.pass = finds'[f].tasks[n].cookie
         /\ \/ \E resp \in LoginResponses(now):
                 /\ resp.ok /\ resp.cookie = cookiesCache'.pass
                 /\ resp.expires # NoExpiry
                 /\ resp.expires = cookiesCache'.cookieExpirationDate
            \/ cookiesCache'.cookieExpirationDate = 0]_vars

\* ------------------------------------------------------------------------
\* Torrent store: properties of the persisted state under interleaving
\* ------------------------------------------------------------------------
\* the ready callback of torrent t runs in this step (for a duplicate, the
\* engine may call it as it destroys the torrent)
CallbackStep(t) ==
  \/ tor[t].status # "ready" /\ tor'[t].status = "ready"
  \/ tor[t].status = "parsing" /\ tor'[t].status = "destroyed"

\* the deleteTorrent call r rewrites the state in this step
DeleteStep(r) ==
  /\ reqs[r].kind = "delete"
  /\ reqs[r].pc = "captured" /\ reqs'[r].pc # "captured"

\* some add of the hash has resolved, or the state had it at start-up
Added(h) ==
  \E r \in 1..Len(reqs):
    /\ reqs[r].kind \in {"load", "play"} /\ reqs[r].hash = h
    /\ reqs[r].kind = "load" \/ reqs[r].pc = "resolved"

\* some deleteTorrent of the hash has rewritten the state
Deleted(h) ==
  \E r \in 1..Len(reqs):
    /\ reqs[r].kind = "delete" /\ reqs[r].hash = h
    /\ reqs[r].pc \in {"rm_dir", "rm_file", "done", "failed"}

\* when nothing is in progress the state holds the hashes added and never
\* deleted, and none that was loaded and deleted and not asked for again
StateIsAddedMinusDeleted ==
  \A h \in Hashes:
    (booted /\ Quiescent) =>
      /\ (Added(h) /\ ~Deleted(h)) => h \in DOMAIN stateFile
      /\ (~Added(h) /\ ~Deleted(h)) => h \notin DOMAIN stateFile
      /\ (/\ Deleted(h)
          /\ \A r \in 1..Len(reqs):
               reqs[r].hash = h => reqs[r].kind # "play") =>
           h \notin DOMAIN stateFile

\* C26: every update of the persisted state is one step (read, modify,
\* write), so no update is lost: a ready callback adds the entry of its own
\* hash, a delete removes the entry of its own hash, and the entry of no
\* other hash changes; after every step, when nothing is in progress, the
\* state holds exactly the hashes added and not deleted.
C26_NoLostStateUpdate ==
  [][/\ \A k \in Hashes:
          MapGet(stateFile', k) # MapGet(stateFile, k) =>
            \/ \E t \in 1..Len(tor):
                 /\ HashOf(tor[t].path) = k /\ CallbackStep(t)
                 /\ MapGet(stateFile', k) = tor[t].path
            \/ \E r \in 1..Len(reqs):
                 /\ DeleteStep(r) /\ reqs[r].hash = k
                 /\ k \notin DOMAIN stateFile'
     /\ \A t \in 1..Len(tor):
          (tor[t].status # "ready" /\ tor'[t].status = "ready") =>
            MapGet(stateFile', tor[t].infoHash) = tor[t].path
     /\ \A r \in 1..Len(reqs):
          DeleteStep(r) => reqs[r].hash \notin DOMAIN stateFile'
     /\ StateIsAddedMinusDeleted']_vars

\* an add of one hash and a delete of another have both completed
C26_Witness ==
  \E a, d \in 1..Len(reqs):
    /\ booted /\ Quiescent
    /\ reqs[a].kind = "play" /\ reqs[a].pc = "resolved"
    /\ reqs[a].created # NoTorrent
    /\ reqs[d].kind = "delete" /\ reqs[d].pc = "done"
    /\ reqs[a].hash # reqs[d].hash
    /\ reqs[a].hash \in DOMAIN stateFile
    /\ reqs[d].hash \notin DOMAIN stateFile

\* a deleteTorrent call that has passed its guard and has not returned
Deleting(r) ==
  reqs[r].kind = "delete" /\ reqs[r].pc \in {"captured", "rm_dir", "rm_file"}

\* C28: of two deleteTorrent calls for the same registered hash that are in
\* progress at the same time neither ends in an error, and only one of them
\* releases the torrent and removes the directory and the torrent file.
C28_OverlappingDeletesBothComplete ==
  [][\A a, b \in 1..Len(reqs):
       (/\ a # b /\ Deleting(a) /\ Deleting(b)
        /\ reqs[a].hash = reqs[b].hash) =>
         /\ reqs'[a].pc # "failed" /\ reqs'[b].pc # "failed"
         /\ ~(/\ reqs'[a].pc \in {"rm_dir", "rm_file", "done"}
              /\ reqs'[b].pc \in {"rm_dir", "rm_file", "done"})]_vars
====
